---- MODULE Spec2Model ----
(***************************************************************************)
(* Orchestra glue runner (src/orchestra/backend/glue_runner.py).           *)
(*                                                                         *)
(* One OrchestraGlueRunner instance executes run_workflow on a workflow    *)
(* object handed in by its caller, possibly several times.  A run walks    *)
(* the step list in order; a node step resolves {{...}} references against *)
(* execution memory and invokes the node with a retry loop, an assembly    *)
(* step reshapes an earlier step's output, again with a retry loop.        *)
(*                                                                         *)
(* JSON values are tagged records [t, v].  A JSON string is a sequence of  *)
(* lexemes: single characters, and {{...}} reference tokens kept whole     *)
(* (the regular expression of substitute_variables finds exactly those).   *)
(* Dictionary keys, node names and action names are atoms (TLA+ strings),  *)
(* they are only ever compared.                                            *)
(***************************************************************************)
EXTENDS Integers, Sequences, FiniteSets, TLC

----------------------------------------------------------------------------
(* Bounds of the model *)

MaxSteps == 2
MaxRuns == 2
MaxArticles == 2
MaxCalls == 3
MaxStored == 2
MaxExecutions == 3

(* Constants of the program *)

max_retries == 3
MIN_ARTICLE_CHARS == 100
MIN_SUMMARY_CHARS == 50
DEFAULT_MAX_NEWS == 10
MAX_NEWS_CEILING == 50

----------------------------------------------------------------------------
(* JSON values and the Python operations on them *)

JNull == [t |-> "null", v |-> <<>>]
JBool(b) == [t |-> "bool", v |-> b]
JInt(n) == [t |-> "int", v |-> n]
JStr(s) == [t |-> "str", v |-> s]
JList(l) == [t |-> "list", v |-> l]
JDict(d) == [t |-> "dict", v |-> d]

EmptyDict == [k \in {} |-> JNull]

\* bool(x) of Python
Truthy(x) ==
  CASE x.t = "null" -> FALSE
    [] x.t = "bool" -> x.v
    [] x.t = "int" -> x.v # 0
    [] x.t = "str" -> Len(x.v) > 0
    [] x.t = "list" -> Len(x.v) > 0
    [] x.t = "dict" -> DOMAIN x.v # {}

\* d.get(k, dflt) on a Python dict d
Get(d, k, dflt) == IF k \in DOMAIN d THEN d[k] ELSE dflt

\* d[k] = val on (a copy of) a Python dict d
SetKey(d, k, val) == [x \in DOMAIN d \cup {k} |-> IF x = k THEN val ELSE d[x]]

Rep(c, n) == [j \in 1..n |-> c]

Whitespace == {" ", "\t", "\n"}

RECURSIVE LStrip(_)
LStrip(s) == IF s # <<>> /\ Head(s) \in Whitespace THEN LStrip(Tail(s)) ELSE s

RECURSIVE RStrip(_)
RStrip(s) ==
  IF s # <<>> /\ s[Len(s)] \in Whitespace THEN RStrip(SubSeq(s, 1, Len(s) - 1)) ELSE s

\* str.strip()
Strip(s) == RStrip(LStrip(s))

\* str.startswith(prefix)
StartsWith(s, prefix) == Len(s) >= Len(prefix) /\ SubSeq(s, 1, Len(prefix)) = prefix

HTTP == <<"h", "t", "t", "p", ":", "/", "/">>
HTTPS == <<"h", "t", "t", "p", "s", ":", "/", "/">>

DigitChar == <<"0", "1", "2", "3", "4", "5", "6", "7", "8", "9">>

RECURSIVE Digits(_)
Digits(n) ==
  IF n < 10 THEN <<DigitChar[n + 1]>> ELSE Digits(n \div 10) \o <<DigitChar[(n % 10) + 1]>>

\* str(value) as substitute_variables pastes it into a string; the repr of a
\* container is kept as one opaque lexeme per container kind
PyStr(x) ==
  CASE x.t = "null" -> <<"N", "o", "n", "e">>
    [] x.t = "bool" -> IF x.v THEN <<"T", "r", "u", "e">> ELSE <<"F", "a", "l", "s", "e">>
    [] x.t = "int" -> IF x.v < 0 THEN <<"-">> \o Digits(0 - x.v) ELSE Digits(x.v)
    [] x.t = "str" -> x.v
    [] x.t = "list" -> <<"[...]">>
    [] x.t = "dict" -> <<"{...}">>

----------------------------------------------------------------------------
(* The data the model draws from *)

GNS == "google-news-scraper"
APS == "article-page-scraper"
AP == "article-processor"

\* a node the validator has no rule of its own for
FETCH == "fetch"

\* another one, with few outputs
FEED == "feed"

\* nodes that have a run.py under nodes_dir
RegisteredNodes == {GNS, APS, AP, FETCH, FEED}

Last24Hours == <<"L", "a", "s", "t", " ", "2", "4", " ", "h", "o", "u", "r", "s">>
LastWeek == <<"L", "a", "s", "t", " ", "w", "e", "e", "k">>
LastMonth == <<"L", "a", "s", "t", " ", "m", "o", "n", "t", "h">>
LastHour == <<"L", "a", "s", "t", " ", "h", "o", "u", "r">>
LastYear == <<"L", "a", "s", "t", " ", "y", "e", "a", "r">>

\* the time periods the news node knows, narrowest first
TimePeriods == <<LastHour, Last24Hours, LastWeek, LastMonth, LastYear>>

\* the {{...}} tokens of the model and match.split('.') of each
RefParts ==
  [x \in {"{{google-news-scraper.articles.[0].url}}", "{{article_selector.article_url}}",
          "{{fetch.value}}"} |->
     IF x = "{{google-news-scraper.articles.[0].url}}"
       THEN <<GNS, "articles", "[0]", "url">>
     ELSE IF x = "{{article_selector.article_url}}"
       THEN <<"article_selector", "article_url">>
     ELSE <<"fetch", "value">>]

IsRef(lexeme) == lexeme \in DOMAIN RefParts

\* int(field[1:-1]) for the path segments of the form [N]
SegIndex == [x \in {"[0]", "[1]"} |-> IF x = "[0]" THEN 0 ELSE 1]

\* field.startswith('[') and field.endswith(']')
IsBracketed(field) == field \in DOMAIN SegIndex

\* output keys k of the model with "url" in k.lower()
UrlNamedKeys == {"article_url", "url"}

GoodArticle == JDict([title |-> JStr(<<"A">>), url |-> JStr(HTTPS \o <<"a">>)])
BadArticle == JDict([title |-> JStr(<<"B">>), url |-> JStr(<<"/", "b">>)])

RECURSIVE SeqsUpTo(_, _)
SeqsUpTo(S, n) ==
  IF n = 0 THEN {<<>>}
  ELSE LET shorter == SeqsUpTo(S, n - 1)
       IN shorter \cup {Append(s, x) : s \in {q \in shorter : Len(q) = n - 1}, x \in S}

ArticleLists == SeqsUpTo({GoodArticle, BadArticle}, MaxArticles)

LongText == Rep("x", MIN_ARTICLE_CHARS)

ItemX == JDict([id |-> JStr(<<"x">>)])
ItemY == JDict([id |-> JStr(<<"y">>)])
EmptyItem == JDict(EmptyDict)

ItemLists == SeqsUpTo({ItemX, ItemY, EmptyItem}, MaxArticles)

\* what a node's run.py can print as its JSON object
\* a collection whose only usable item is the third
LateItems == <<EmptyItem, EmptyItem, ItemX>>

NodeOutputs(node_name) ==
  CASE node_name = GNS ->
         {JDict([articles |-> JList(l)]) : l \in ArticleLists}
           \cup {JDict([error |-> JStr(<<"e">>), articles |-> JList(<<>>)])}
    [] node_name = APS ->
         {JDict([article_text |-> JStr(LongText), success |-> JBool(TRUE)]),
          JDict([error |-> JStr(<<"e">>), article_text |-> JNull, success |-> JBool(FALSE)])}
    [] node_name = AP ->
         {JDict([summary |-> JStr(Rep("s", MIN_SUMMARY_CHARS))]),
          JDict([summary |-> JStr(Rep("s", MIN_SUMMARY_CHARS - 1))])}
    [] node_name = FETCH ->
         {JDict([items |-> JList(l)]) : l \in ItemLists}
           \cup {JDict([error |-> JStr(<<"e">>), items |-> JList(<<ItemX>>)]),
                 JDict([items |-> JList(LateItems)])}
    [] node_name = FEED ->
         {JDict([items |-> JList(<<EmptyItem, ItemX>>)]),
          JDict([items |-> JList(<<ItemX>>)]),
          JDict([error |-> JStr(<<"e">>), items |-> JList(<<ItemX>>)])}
    [] OTHER -> {}

----------------------------------------------------------------------------
(* substitute_variables *)

\* the walk of memory[node_name] along field_path; None (JNull) when a segment
\* is not there
RECURSIVE Navigate(_, _)
Navigate(value, field_path) ==
  IF field_path = <<>> THEN value
  ELSE LET field == Head(field_path)
       IN IF value.t = "dict" /\ field \in DOMAIN value.v
            THEN Navigate(value.v[field], Tail(field_path))
          ELSE IF value.t = "list" /\ IsBracketed(field)
            THEN IF SegIndex[field] < Len(value.v)
                   THEN Navigate(value.v[SegIndex[field] + 1], Tail(field_path))
                   ELSE JNull
          ELSE JNull

\* the value one {{...}} match stands for; JNull when the string is left alone
ResolveRef(lexeme, memory) ==
  LET parts == RefParts[lexeme]
  IN IF Len(parts) >= 2 /\ parts[1] \in DOMAIN memory
       THEN Navigate(memory[parts[1]], Tail(parts))
       ELSE JNull

RECURSIVE SubstituteString(_, _)
SubstituteString(s, memory) ==
  IF s = <<>> THEN <<>>
  ELSE LET lexeme == Head(s)
           value == IF IsRef(lexeme) THEN ResolveRef(lexeme, memory) ELSE JNull
       IN (IF value.t # "null" THEN PyStr(value) ELSE <<lexeme>>)
            \o SubstituteString(Tail(s), memory)

RECURSIVE substitute_variables(_, _)
substitute_variables(data, memory) ==
  CASE data.t = "str" -> JStr(SubstituteString(data.v, memory))
    [] data.t = "dict" ->
         JDict([k \in DOMAIN data.v |-> substitute_variables(data.v[k], memory)])
    [] data.t = "list" ->
         JList([j \in 1..Len(data.v) |-> substitute_variables(data.v[j], memory)])
    [] OTHER -> data

----------------------------------------------------------------------------
(* Assembly engine.  An instruction is a dict with the atoms action, from,  *)
(* extract and the integer index, each optional, or a bare field name.      *)

NoField == "None"

InstrAction(instruction) == Get(instruction.v, "action", NoField)
InstrFrom(instruction) == Get(instruction.v, "from", NoField)
InstrExtract(instruction) == Get(instruction.v, "extract", NoField)
InstrIndex(instruction) == Get(instruction.v, "index", 0)

\* mutant: the selection loses the selected item
Extracted_Nothing(instruction, selected_item) == JNull

\* selected_item.get(extract_field) when asked for and possible, else the item
Extracted(instruction, selected_item) ==
  IF InstrExtract(instruction) # NoField /\ selected_item.t = "dict"
    THEN Get(selected_item.v, InstrExtract(instruction), JNull)
    ELSE selected_item

\* mutant: select_random wants at least two items to choose from
Produces_RandomNeedsTwo(instruction, source_data) ==
  IF instruction.t = "dict"
    THEN /\ InstrFrom(instruction) \in DOMAIN source_data.v
         /\ LET items == source_data.v[InstrFrom(instruction)]
            IN CASE InstrAction(instruction) = "select_random" ->
                      items.t = "list" /\ Len(items.v) > 1
                 [] InstrAction(instruction) = "select_index" ->
                      /\ items.t = "list"
                      /\ 0 <= InstrIndex(instruction)
                      /\ InstrIndex(instruction) < Len(items.v)
                 [] InstrAction(instruction) = "extract" -> TRUE
                 [] OTHER -> FALSE
    ELSE instruction.t = "str" /\ instruction.v \in DOMAIN source_data.v

\* the instruction puts its output key into the result
Produces(instruction, source_data) ==
  IF instruction.t = "dict"
    THEN /\ InstrFrom(instruction) \in DOMAIN source_data.v
         /\ LET items == source_data.v[InstrFrom(instruction)]
            IN CASE InstrAction(instruction) = "select_random" ->
                      items.t = "list" /\ Len(items.v) > 0
                 [] InstrAction(instruction) = "select_index" ->
                      /\ items.t = "list"
                      /\ 0 <= InstrIndex(instruction)
                      /\ InstrIndex(instruction) < Len(items.v)
                 [] InstrAction(instruction) = "extract" -> TRUE
                 [] OTHER -> FALSE
    ELSE instruction.t = "str" /\ instruction.v \in DOMAIN source_data.v

\* what it puts there; choice is what random.choice picks (a position)
Produced(instruction, source_data, choice) ==
  IF instruction.t = "dict"
    THEN LET items == source_data.v[InstrFrom(instruction)]
         IN CASE InstrAction(instruction) = "select_random" ->
                   Extracted(instruction, items.v[choice])
              [] InstrAction(instruction) = "select_index" ->
                   Extracted(instruction, items.v[InstrIndex(instruction) + 1])
              [] OTHER -> items
    ELSE source_data.v[instruction.v]

\* the positions random.choice can pick for each output key
RandomChoices(assembly_config, source_data) ==
  {choices \in [DOMAIN assembly_config -> 1..MaxArticles] :
     \A k \in DOMAIN assembly_config :
       IF /\ assembly_config[k].t = "dict"
          /\ InstrAction(assembly_config[k]) = "select_random"
          /\ Produces(assembly_config[k], source_data)
         THEN choices[k] <= Len(source_data.v[InstrFrom(assembly_config[k])].v)
         ELSE choices[k] = 1}

\* mutant: one instruction without a result empties the whole result
process_assembly_step_AllOrNothing(assembly_config, source_data, choices) ==
  LET made == {k \in DOMAIN assembly_config : Produces(assembly_config[k], source_data)}
  IN [k \in (IF made = DOMAIN assembly_config THEN made ELSE {}) |->
        Produced(assembly_config[k], source_data, choices[k])]

process_assembly_step(assembly_config, source_data, choices) ==
  LET made == {k \in DOMAIN assembly_config : Produces(assembly_config[k], source_data)}
  IN [k \in made |-> Produced(assembly_config[k], source_data, choices[k])]

\* mutant: the call leaves the index of its select_index instructions advanced
ArgumentsAfter_IndexAdvanced(assembly_config, source_data) ==
  <<[k \in DOMAIN assembly_config |->
       IF assembly_config[k].t = "dict" /\ InstrAction(assembly_config[k]) = "select_index"
         THEN JDict(SetKey(assembly_config[k].v, "index", InstrIndex(assembly_config[k]) + 1))
         ELSE assembly_config[k]],
    source_data>>

\* the argument objects after process_assembly_step: it writes to its result
\* and to nothing else
ArgumentsAfter(assembly_config, source_data) == <<assembly_config, source_data>>

_validate_assembly_output(result, assembly_config) ==
  \A output_key \in DOMAIN assembly_config :
    /\ output_key \in DOMAIN result
    /\ Truthy(result[output_key])
    /\ output_key \in UrlNamedKeys =>
         /\ result[output_key].t = "str"
         /\ \/ StartsWith(result[output_key].v, HTTP)
            \/ StartsWith(result[output_key].v, HTTPS)

----------------------------------------------------------------------------
(* Output validator and retry strategies *)

\* output.get("success") is False or "error" in output
ReportsFailure(output) ==
  \/ "success" \in DOMAIN output.v /\ output.v["success"] = JBool(FALSE)
  \/ "error" \in DOMAIN output.v

\* not text or (isinstance(text, str) and len(text.strip()) < minimum)
\* mutant: the length is taken of the text as it is, not of the trimmed text
TextTooShort_Untrimmed(text, minimum) ==
  \/ ~Truthy(text)
  \/ text.t = "str" /\ Len(text.v) < minimum

TextTooShort(text, minimum) ==
  \/ ~Truthy(text)
  \/ text.t = "str" /\ Len(Strip(text.v)) < minimum

\* len(x) raises TypeError
Unsized(x) == x.t \in {"null", "bool", "int"}

\* raised is the exception that leaves the method instead of the verdict
_validate_node_output(node_name, output) ==
  LET reported == ReportsFailure(output)
      no_articles == node_name = GNS /\ ~Truthy(Get(output.v, "articles", JList(<<>>)))
      no_text ==
        node_name = APS
          /\ TextTooShort(Get(output.v, "article_text", JStr(<<>>)), MIN_ARTICLE_CHARS)
      no_summary ==
        node_name = AP /\ TextTooShort(Get(output.v, "summary", JStr(<<>>)), MIN_SUMMARY_CHARS)
  IN [is_valid |-> ~(reported \/ no_articles \/ no_text \/ no_summary),
      issues |->
        (IF reported THEN <<"reported failure">> ELSE <<>>)
          \o (IF no_articles THEN <<"No articles found">> ELSE <<>>)
          \o (IF no_text THEN <<"Insufficient article content">> ELSE <<>>)
          \o (IF no_summary THEN <<"Summary too short or missing">> ELSE <<>>),
      retry_recommended |-> reported \/ no_text \/ no_summary,
      alternative_strategy |->
        IF no_articles THEN "try_different_keywords_or_time_period"
        ELSE IF no_text THEN "try_different_article_url"
        ELSE NoField,
      raised |->
        IF /\ node_name = GNS
           /\ Truthy(Get(output.v, "articles", JList(<<>>)))
           /\ Unsized(Get(output.v, "articles", JList(<<>>)))
          THEN "TypeError"
          ELSE NoField]

Min(a, b) == IF a <= b THEN a ELSE b

\* original_inputs and the result are the contents of a dict
\* mutant: the widening is applied for every node the validator names a
\* strategy for
_create_retry_strategy_AnyNode(node_name, original_inputs, validation, attempt) ==
  IF validation.alternative_strategy # NoField
    THEN SetKey(original_inputs, "max_news",
                JInt(Min(Get(original_inputs, "max_news", JInt(DEFAULT_MAX_NEWS)).v * 2,
                         MAX_NEWS_CEILING)))
    ELSE original_inputs

_create_retry_strategy(node_name, original_inputs, validation, attempt) ==
  IF /\ node_name = GNS
     /\ validation.alternative_strategy = "try_different_keywords_or_time_period"
    THEN LET current_period == Get(original_inputs, "time_period", JStr(Last24Hours))
             widened ==
               IF current_period = JStr(Last24Hours)
                 THEN SetKey(original_inputs, "time_period", JStr(LastWeek))
               ELSE IF current_period = JStr(LastWeek)
                 THEN SetKey(original_inputs, "time_period", JStr(LastMonth))
               ELSE original_inputs
         IN SetKey(widened, "max_news",
                   JInt(Min(Get(widened, "max_news", JInt(DEFAULT_MAX_NEWS)).v * 2,
                            MAX_NEWS_CEILING)))
    ELSE original_inputs

\* the instructions after the retry strategy has run; the instruction dicts are
\* the ones of the configuration passed in, written in place
\* mutant: the new index is written without the test against the length
_create_intelligent_assembly_retry_Unbounded(assembly_config, source_data, attempt) ==
  [k \in DOMAIN assembly_config |->
     LET instruction == assembly_config[k]
     IN IF /\ instruction.t = "dict"
           /\ InstrAction(instruction) = "select_index"
           /\ InstrFrom(instruction) \in DOMAIN source_data.v
          THEN [instruction EXCEPT
                  !.v = SetKey(instruction.v, "index", InstrIndex(instruction) + attempt)]
          ELSE instruction]

_create_intelligent_assembly_retry(assembly_config, source_data, attempt) ==
  [k \in DOMAIN assembly_config |->
     LET instruction == assembly_config[k]
         new_index == InstrIndex(instruction) + attempt
     IN IF /\ instruction.t = "dict"
           /\ InstrAction(instruction) = "select_index"
           /\ InstrFrom(instruction) \in DOMAIN source_data.v
           /\ source_data.v[InstrFrom(instruction)].t = "list"
           /\ new_index < Len(source_data.v[InstrFrom(instruction)].v)
          THEN [instruction EXCEPT !.v = SetKey(instruction.v, "index", new_index)]
          ELSE instruction]

----------------------------------------------------------------------------
(* Workflows handed to the runner *)

NewsStep ==
  [node |-> GNS,
   inputs |-> JDict([time_period |-> JStr(Last24Hours), max_news |-> JInt(10)])]

PageStep ==
  [node |-> APS,
   inputs |-> JDict([url |-> JStr(<<"{{google-news-scraper.articles.[0].url}}">>)])]

SelectStep ==
  [assembly |->
     [article_url |->
        JDict([action |-> "select_index", from |-> "articles", index |-> 0,
               extract |-> "url"])],
   source |-> GNS,
   name |-> "article_selector"]

RandomStep ==
  [assembly |-> [article |-> JDict([action |-> "select_random", from |-> "articles"])],
   source |-> GNS]

NoteStep == [description |-> "neither a node nor an assembly"]

StepPool == {NewsStep, PageStep, SelectStep, RandomStep, NoteStep}

FetchStep == [node |-> FETCH, inputs |-> JDict([count |-> JInt(5)])]

PickStep ==
  [assembly |-> [picked |-> JDict([action |-> "select_index", from |-> "items", index |-> 0])],
   source |-> FETCH,
   name |-> "pick"]

PickWorkflow == [steps |-> <<FetchStep, PickStep>>]

FeedStep == [node |-> FEED, inputs |-> JDict(EmptyDict)]

TakeStep ==
  [assembly |-> [taken |-> JDict([action |-> "select_index", from |-> "items", index |-> 0])],
   source |-> FEED,
   name |-> "take"]

TakeWorkflow == [steps |-> <<FeedStep, TakeStep>>]

\* an assembly step whose instruction has an action the runner does not know
OddStep ==
  [assembly |-> [picked |-> JDict([action |-> "shuffle", from |-> "items"])],
   source |-> FETCH,
   name |-> "odd"]

\* a node step on a node that has no run.py under nodes_dir
GhostStep == [node |-> "ghost", inputs |-> JDict(EmptyDict)]

\* the workflows over the fetch-and-pick steps
PickWorkflows ==
  {[steps |-> steps] :
     steps \in SeqsUpTo({FetchStep, PickStep, NoteStep, OddStep, GhostStep}, MaxSteps)}

Workflows ==
  {[steps |-> steps] : steps \in SeqsUpTo(StepPool, MaxSteps)}
    \cup {[name |-> "a workflow without steps"]}

\* f"assembly_{i+1}", i counted from 0 in the code and from 1 here
DefaultAssemblyName ==
  <<"assembly_1", "assembly_2", "assembly_3", "assembly_4", "assembly_5">>

----------------------------------------------------------------------------
(* State *)

VARIABLES
  workflow,          \* the caller's workflow object
  execution_memory,  \* self.execution_memory
  retry_attempts,    \* self.retry_attempts
  results,           \* results of run_workflow
  pc,                \* idle, step, node_loop, asm_loop, done, failed
  i,                 \* position in workflow["steps"], from 1
  run,               \* run_workflow calls so far
  name,              \* node_name / assembly_name of the step being executed
  config,            \* inputs / assembly_config of the retry loop
  retry_key,
  attempt,
  error,             \* the exception that ended the run
  original,          \* the workflow as the caller built it
  made,              \* attempts made by the current retry call
  last,              \* outcome of the latest attempt
  invoked,           \* inputs the node was last invoked with
  trace,             \* first attempts and memory writes of the run, in order
  call,              \* the latest direct call of a method of the runner
  other,             \* the instance state of a second runner, while it is not running
  enhanced,          \* the fields EnhancedOrchestraGlueRunner adds, and its calls so far
  db                 \* the tables of the WorkflowMemory database

\* the state a workflow run works on
runner_vars ==
  <<workflow, execution_memory, retry_attempts, results, pc, i, run, name, config,
    retry_key, attempt, error, original, made, last, invoked, trace>>

vars ==
  <<workflow, execution_memory, retry_attempts, results, pc, i, run, name, config,
    retry_key, attempt, error, original, made, last, invoked, trace, call, other,
    enhanced, db>>

NoCall == JNull
NoKey == <<NoField, JNull>>
NoError == [exc |-> NoField, cause |-> NoField, step |-> 0]
NoOutcome == [kind |-> NoField, exc |-> NoField, output |-> JNull]
Raised(exc) == [kind |-> "raise", exc |-> exc, output |-> JNull]
Returned(output) == [kind |-> "return", exc |-> NoField, output |-> output]

NoDirectCall == [fn |-> NoField, args |-> <<>>, ret |-> JNull, after |-> <<>>, nth |-> 0]

\* EnhancedOrchestraGlueRunner.__init__: agent is whether an agent was given;
\* calls and succeeded count the calls of run_workflow_with_agent_assistance
\* that have ended and those of them whose run returned
Enhanced(agent) == [agent |-> agent, execution_history |-> <<>>, calls |-> 0, succeeded |-> 0]

\* a runner that is not used through the enhanced class
Plain == Enhanced(FALSE)

\* the database as _init_database leaves a new file: both tables empty
NewDatabase == [workflows |-> <<>>, workflow_executions |-> <<>>]

\* a second runner as __init__ leaves it
SecondRunner ==
  [id |-> 2, execution_memory |-> EmptyDict, retry_attempts |-> EmptyDict,
   results |-> EmptyDict, pc |-> "idle", i |-> 0, run |-> 0, name |-> NoField,
   config |-> NoCall, retry_key |-> NoKey, attempt |-> 0, error |-> NoError, made |-> 0,
   last |-> NoOutcome, invoked |-> NoCall, trace |-> <<>>]

\* a runner as __init__ leaves it, about to be given the workflow
Constructed ==
  /\ other = SecondRunner
  /\ original = workflow
  /\ execution_memory = EmptyDict
  /\ retry_attempts = EmptyDict
  /\ results = EmptyDict
  /\ pc = "idle"
  /\ i = 0
  /\ run = 0
  /\ name = NoField
  /\ config = NoCall
  /\ retry_key = NoKey
  /\ attempt = 0
  /\ error = NoError
  /\ made = 0
  /\ last = NoOutcome
  /\ invoked = NoCall
  /\ trace = <<>>

Init ==
  workflow \in Workflows /\ Constructed /\ call = NoDirectCall /\ enhanced = Plain
    /\ db = NewDatabase

step == workflow.steps[i]

IsNodeStep(s) == "node" \in DOMAIN s
IsAssemblyStep(s) == ~IsNodeStep(s) /\ "assembly" \in DOMAIN s

\* step.get("name", f"assembly_{i+1}")
AssemblyName(s, idx) == IF "name" \in DOMAIN s THEN s.name ELSE DefaultAssemblyName[idx]

\* source_step and source_step in self.execution_memory
HasValidSource(s, memory) == "source" \in DOMAIN s /\ s.source \in DOMAIN memory

\* the identifier a step's output is stored under
StepId(s, idx) ==
  IF IsNodeStep(s) THEN s.node
  ELSE IF IsAssemblyStep(s) THEN AssemblyName(s, idx)
  ELSE NoField

\* f"{name}_{hash(str(configuration))}"
RetryKey(id, configuration) == <<id, configuration>>

\* the exception leaves run_workflow
Fail(exc, cause) ==
  /\ pc' = "failed"
  /\ error' = [exc |-> exc, cause |-> cause, step |-> i]

\* the trace once the current step has been attempted
FirstAttempt == IF made = 0 THEN Append(trace, <<"attempt", i>>) ELSE trace

\* mutant: the output reaches results but not execution memory
Record_SkipsMemory(id, output) ==
  /\ execution_memory' = execution_memory
  /\ results' = SetKey(results, id, output)
  /\ trace' = Append(FirstAttempt, <<"record", i>>)
  /\ i' = i + 1
  /\ pc' = "step"

\* mutant: what is recorded is the output of the attempt before the last one,
\* when there was one
Record_EarlierAttempt(id, output) ==
  /\ execution_memory' =
       SetKey(execution_memory, id, IF last.kind = "return" THEN last.output ELSE output)
  /\ results' = SetKey(results, id, IF last.kind = "return" THEN last.output ELSE output)
  /\ trace' = Append(FirstAttempt, <<"record", i>>)
  /\ i' = i + 1
  /\ pc' = "step"

\* the step's output goes to memory and the loop moves on
Record(id, output) ==
  /\ execution_memory' = SetKey(execution_memory, id, output)
  /\ results' = SetKey(results, id, output)
  /\ trace' = Append(FirstAttempt, <<"record", i>>)
  /\ i' = i + 1
  /\ pc' = "step"

----------------------------------------------------------------------------
(* run_workflow *)

RunWorkflow ==
  /\ pc \in {"idle", "done", "failed"}
  /\ run < MaxRuns
  /\ run' = run + 1
  /\ name' = NoField
  /\ config' = NoCall
  /\ retry_key' = NoKey
  /\ attempt' = 0
  /\ made' = 0
  /\ last' = NoOutcome
  /\ invoked' = NoCall
  /\ trace' = <<>>
  /\ IF "steps" \notin DOMAIN workflow
       THEN /\ pc' = "failed"
            /\ error' = [exc |-> "ValueError", cause |-> "no_steps", step |-> 0]
            /\ UNCHANGED <<execution_memory, results, i>>
       ELSE /\ execution_memory' = EmptyDict
            /\ results' = EmptyDict
            /\ i' = 1
            /\ pc' = "step"
            /\ error' = NoError
  /\ UNCHANGED <<workflow, retry_attempts, original>>
  /\ UNCHANGED <<call, other, enhanced, db>>

\* a node step: resolve the inputs and enter execute_node_with_retry
NodeStep ==
  /\ pc = "step"
  /\ i <= Len(workflow.steps)
  /\ IsNodeStep(step)
  /\ LET resolved_inputs ==
           substitute_variables(Get(step, "inputs", JDict(EmptyDict)), execution_memory)
     IN /\ name' = step.node
        /\ config' = resolved_inputs
        /\ retry_key' = RetryKey(step.node, resolved_inputs)
        /\ attempt' = Get(retry_attempts, RetryKey(step.node, resolved_inputs), 0)
  /\ pc' = "node_loop"
  /\ made' = 0
  /\ last' = NoOutcome
  /\ invoked' = NoCall
  /\ UNCHANGED <<workflow, execution_memory, retry_attempts, results, i, run, error,
                 original, trace>>
  /\ UNCHANGED <<call, other, enhanced, db>>

\* while attempt < self.max_retries
LoopRuns(attempts) == attempts < max_retries

\* mutant: the exhaustion test fires one attempt early
Exhausted_OneEarly(attempts) == attempts >= max_retries - 1

\* attempt >= self.max_retries, tested after attempt += 1
Exhausted(attempts) == attempts >= max_retries

\* mutant: the retry decision forgets the attempt bound
GivesUp_IgnoresBound(validation, attempts) == ~validation.retry_recommended

\* mutant: the retry decision forgets the validator's recommendation
GivesUp_IgnoresRecommendation(validation, attempts) == attempts >= max_retries - 1

\* not validation["retry_recommended"] or attempt >= self.max_retries - 1
GivesUp(validation, attempts) ==
  ~validation.retry_recommended \/ attempts >= max_retries - 1

\* what execute_node can do
ExecuteOutcomes(node_name) ==
  IF node_name \in RegisteredNodes
    THEN {Raised("RuntimeError")} \cup {Returned(output) : output \in NodeOutputs(node_name)}
    ELSE {Raised("FileNotFoundError")}

\* the while condition of execute_node_with_retry is false
NodeLoopExit ==
  /\ pc = "node_loop"
  /\ ~LoopRuns(attempt)
  /\ Fail("RuntimeError", "attempts_exhausted")
  /\ UNCHANGED <<workflow, execution_memory, retry_attempts, results, i, run, name,
                 config, retry_key, attempt, original, made, last, invoked, trace>>
  /\ UNCHANGED <<call, other, enhanced, db>>

\* the exception the try block of execute_node_with_retry ends with, if any:
\* that of execute_node, or that of the validation of its output
TryRaises(node_name, outcome) ==
  IF outcome.kind = "raise" THEN outcome.exc
  ELSE _validate_node_output(node_name, outcome.output).raised

\* execute_node or the validation raises
NodeRaises ==
  /\ pc = "node_loop"
  /\ LoopRuns(attempt)
  /\ \E outcome \in {o \in ExecuteOutcomes(name) : TryRaises(name, o) # NoField} :
       /\ last' = Raised(TryRaises(name, outcome))
       /\ attempt' = attempt + 1
       /\ retry_attempts' = SetKey(retry_attempts, retry_key, attempt + 1)
       /\ IF Exhausted(attempt + 1)
            THEN Fail(TryRaises(name, outcome), "execution_error")
            ELSE UNCHANGED <<pc, error>>
  /\ made' = made + 1
  /\ invoked' = config
  /\ trace' = FirstAttempt
  /\ UNCHANGED <<workflow, execution_memory, results, i, run, name, config, retry_key,
                 original>>
  /\ UNCHANGED <<call, other, enhanced, db>>

\* execute_node returns an output that is returned to run_workflow: a valid one,
\* or an invalid one when no retry is recommended or none is left
NodeReturns ==
  /\ pc = "node_loop"
  /\ LoopRuns(attempt)
  /\ \E outcome \in {o \in ExecuteOutcomes(name) : o.kind = "return"} :
       LET validation == _validate_node_output(name, outcome.output)
       IN /\ validation.raised = NoField
          /\ validation.is_valid \/ GivesUp(validation, attempt)
          /\ last' = outcome
          /\ Record(name, outcome.output)
  /\ made' = made + 1
  /\ invoked' = config
  /\ UNCHANGED <<workflow, retry_attempts, run, name, config, retry_key, attempt, error,
                 original>>
  /\ UNCHANGED <<call, other, enhanced, db>>

\* mutant: the loop goes round again without counting the attempt
NodeRetries_Uncounted ==
  /\ pc = "node_loop"
  /\ LoopRuns(attempt)
  /\ \E outcome \in {o \in ExecuteOutcomes(name) : o.kind = "return"} :
       LET validation == _validate_node_output(name, outcome.output)
       IN /\ validation.raised = NoField
          /\ ~validation.is_valid
          /\ ~GivesUp(validation, attempt)
          /\ last' = outcome
          /\ config' = JDict(_create_retry_strategy(name, config.v, validation, attempt + 1))
  /\ made' = IF made = 0 THEN 1 ELSE made
  /\ invoked' = config
  /\ trace' = FirstAttempt
  /\ UNCHANGED <<workflow, execution_memory, results, pc, i, run, name, retry_key, error,
                 original, attempt, retry_attempts>>
  /\ UNCHANGED <<call, other, enhanced, db>>

\* execute_node returns an invalid output and the loop goes round again
NodeRetries ==
  /\ pc = "node_loop"
  /\ LoopRuns(attempt)
  /\ \E outcome \in {o \in ExecuteOutcomes(name) : o.kind = "return"} :
       LET validation == _validate_node_output(name, outcome.output)
       IN /\ validation.raised = NoField
          /\ ~validation.is_valid
          /\ ~GivesUp(validation, attempt)
          /\ last' = outcome
          /\ attempt' = attempt + 1
          /\ retry_attempts' = SetKey(retry_attempts, retry_key, attempt + 1)
          /\ config' = JDict(_create_retry_strategy(name, config.v, validation, attempt + 1))
  /\ made' = made + 1
  /\ invoked' = config
  /\ trace' = FirstAttempt
  /\ UNCHANGED <<workflow, execution_memory, results, pc, i, run, name, retry_key, error,
                 original>>
  /\ UNCHANGED <<call, other, enhanced, db>>

\* an assembly step whose source is in memory: enter
\* process_assembly_step_with_retry
AssemblyStep ==
  /\ pc = "step"
  /\ i <= Len(workflow.steps)
  /\ IsAssemblyStep(step)
  /\ HasValidSource(step, execution_memory)
  /\ name' = AssemblyName(step, i)
  /\ config' = JDict(step.assembly)
  /\ retry_key' = RetryKey(AssemblyName(step, i), JDict(step.assembly))
  /\ attempt' = Get(retry_attempts, RetryKey(AssemblyName(step, i), JDict(step.assembly)), 0)
  /\ pc' = "asm_loop"
  /\ made' = 0
  /\ last' = NoOutcome
  /\ invoked' = NoCall
  /\ UNCHANGED <<workflow, execution_memory, retry_attempts, results, i, run, error,
                 original, trace>>
  /\ UNCHANGED <<call, other, enhanced, db>>

\* an assembly step without a source in memory
AssemblyMissingSource ==
  /\ pc = "step"
  /\ i <= Len(workflow.steps)
  /\ IsAssemblyStep(step)
  /\ ~HasValidSource(step, execution_memory)
  /\ Fail("ValueError", "missing_source")
  /\ made' = 0
  /\ last' = NoOutcome
  /\ invoked' = NoCall
  /\ UNCHANGED <<workflow, execution_memory, retry_attempts, results, i, run, name,
                 config, retry_key, attempt, original, trace>>
  /\ UNCHANGED <<call, other, enhanced, db>>

\* mutant: a step of unknown kind is skipped instead of failing the run
UnknownStep_Skipped ==
  /\ pc = "step"
  /\ i <= Len(workflow.steps)
  /\ ~("node" \in DOMAIN workflow.steps[i])
  /\ ~("assembly" \in DOMAIN workflow.steps[i])
  /\ i' = i + 1
  /\ made' = 0
  /\ last' = NoOutcome
  /\ invoked' = NoCall
  /\ UNCHANGED <<workflow, execution_memory, retry_attempts, results, pc, run, name,
                 config, retry_key, attempt, error, original, trace>>
  /\ UNCHANGED <<call, other, enhanced, db>>

\* a step with neither 'node' nor 'assembly'
UnknownStep ==
  /\ pc = "step"
  /\ i <= Len(workflow.steps)
  /\ ~IsNodeStep(step)
  /\ ~IsAssemblyStep(step)
  /\ Fail("ValueError", "unknown_step_kind")
  /\ made' = 0
  /\ last' = NoOutcome
  /\ invoked' = NoCall
  /\ UNCHANGED <<workflow, execution_memory, retry_attempts, results, i, run, name,
                 config, retry_key, attempt, original, trace>>
  /\ UNCHANGED <<call, other, enhanced, db>>

source_data == execution_memory[step.source]

\* the assembly result passes _validate_assembly_output and is returned
AssemblyAccepts ==
  /\ pc = "asm_loop"
  /\ LoopRuns(attempt)
  /\ \E choices \in RandomChoices(config.v, source_data) :
       LET result == process_assembly_step(config.v, source_data, choices)
       IN /\ _validate_assembly_output(result, config.v)
          /\ last' = Returned(JDict(result))
          /\ Record(name, JDict(result))
  /\ made' = made + 1
  /\ UNCHANGED <<workflow, retry_attempts, run, name, config, retry_key, attempt, error,
                 original, invoked>>
  /\ UNCHANGED <<call, other, enhanced, db>>

\* the assembly result is invalid: the last attempt returns it, an earlier one
\* runs the retry strategy, which writes the new index into the instruction
\* dicts it shares with the workflow
AssemblyRejects ==
  /\ pc = "asm_loop"
  /\ LoopRuns(attempt)
  /\ \E choices \in RandomChoices(config.v, source_data) :
       LET result == process_assembly_step(config.v, source_data, choices)
           retry_config ==
             _create_intelligent_assembly_retry(config.v, source_data, attempt + 1)
       IN /\ ~_validate_assembly_output(result, config.v)
          /\ last' = Returned(JDict(result))
          /\ attempt' = attempt + 1
          /\ retry_attempts' = SetKey(retry_attempts, retry_key, attempt + 1)
          /\ IF Exhausted(attempt + 1)
               THEN /\ Record(name, JDict(result))
                    /\ UNCHANGED <<workflow, config>>
               ELSE /\ config' = JDict(retry_config)
                    /\ workflow' = [workflow EXCEPT !.steps[i].assembly = retry_config]
                    /\ trace' = FirstAttempt
                    /\ UNCHANGED <<execution_memory, results, pc, i>>
  /\ made' = made + 1
  /\ UNCHANGED <<run, name, retry_key, error, original, invoked>>
  /\ UNCHANGED <<call, other, enhanced, db>>

\* the while condition of process_assembly_step_with_retry is false: the
\* assembly is processed once more and returned as it is
AssemblyLoopExit ==
  /\ pc = "asm_loop"
  /\ ~LoopRuns(attempt)
  /\ \E choices \in RandomChoices(config.v, source_data) :
       LET result == process_assembly_step(config.v, source_data, choices)
       IN /\ last' = Returned(JDict(result))
          /\ Record(name, JDict(result))
  /\ made' = made + 1
  /\ UNCHANGED <<workflow, retry_attempts, run, name, config, retry_key, attempt, error,
                 original, invoked>>
  /\ UNCHANGED <<call, other, enhanced, db>>

\* the for loop is over: run_workflow returns
Complete ==
  /\ pc = "step"
  /\ i > Len(workflow.steps)
  /\ pc' = "done"
  /\ UNCHANGED <<workflow, execution_memory, retry_attempts, results, i, run, name,
                 config, retry_key, attempt, error, original, made, last, invoked, trace>>
  /\ UNCHANGED <<call, other, enhanced, db>>

\* mutant: the result is returned without the execution memory of the run
RunResult_MemoryDropped ==
  [status |-> "success", results |-> results, execution_memory |-> EmptyDict]

\* the value run_workflow returns
RunResult ==
  [status |-> "success", results |-> results, execution_memory |-> execution_memory]

\* the fields the exception that ended the run interpolates into its message
ErrorMessage ==
  CASE error.cause = "no_steps" -> [workflow_keys |-> DOMAIN workflow]
    [] error.cause = "unknown_step_kind" ->
         [step_number |-> error.step, step_keys |-> DOMAIN workflow.steps[error.step]]
    [] error.cause = "missing_source" ->
         [step_number |-> error.step,
          source_step |-> Get(workflow.steps[error.step], "source", NoField),
          available_sources |-> DOMAIN execution_memory]
    [] error.cause = "execution_error" -> [node_name |-> name, detail |-> "stderr"]
    [] error.cause = "attempts_exhausted" -> [node_name |-> name, max_retries |-> max_retries]
    [] OTHER -> [none |-> NoField]

\* what a call of run_workflow that has ended hands its caller
RunOutcome ==
  IF pc = "done"
    THEN [kind |-> "return", exc |-> NoField, value |-> RunResult]
    ELSE [kind |-> "raise", exc |-> error.exc, value |-> [none |-> NoField]]

\* the agent of the enhanced runner: none configured, one that answers, one
\* whose run() raises
Agents == {"none", "answers", "raises"}

\* EnhancedOrchestraGlueRunner.run_workflow_with_agent_assistance on top of the
\* run that has ended
run_workflow_with_agent_assistance(agent) ==
  IF RunOutcome.kind = "return" \/ agent = "none"
    THEN RunOutcome
  ELSE IF agent = "answers"
    THEN [kind |-> "return", exc |-> NoField,
          value |-> [status |-> "failed_with_analysis", error |-> ErrorMessage,
                     agent_analysis |-> "agent_response",
                     suggestions |-> "Check the agent analysis"]]
  ELSE [kind |-> "return", exc |-> NoField,
        value |-> [status |-> "failed", error |-> ErrorMessage,
                   agent_error |-> "agent_error"]]

Next ==
  \/ RunWorkflow
  \/ NodeStep
  \/ NodeLoopExit
  \/ NodeRaises
  \/ NodeReturns
  \/ NodeRetries
  \/ AssemblyStep
  \/ AssemblyMissingSource
  \/ UnknownStep
  \/ AssemblyAccepts
  \/ AssemblyRejects
  \/ AssemblyLoopExit
  \/ Complete

Spec == Init /\ [][Next]_vars

\* the steps run_workflow takes once it has been called
RunSteps ==
  \/ NodeStep
  \/ NodeLoopExit
  \/ NodeRaises
  \/ NodeReturns
  \/ NodeRetries
  \/ AssemblyStep
  \/ AssemblyMissingSource
  \/ UnknownStep
  \/ AssemblyAccepts
  \/ AssemblyRejects
  \/ AssemblyLoopExit
  \/ Complete

\* the runner under the assumption that a call of run_workflow keeps executing:
\* every node invocation returns or times out (subprocess.run with timeout=300)
\* and the pauses between attempts end
SpecLive == Init /\ [][Next]_vars /\ WF_vars(RunSteps)

----------------------------------------------------------------------------
(* EnhancedOrchestraGlueRunner *)

\* what the agent does when it is asked to analyse an error
AgentBehaviours == IF enhanced.agent THEN {"answers", "raises"} ELSE {"none"}

\* the execution history once the call has ended: a record after a run that
\* returned, a record after the agent's analysis of a run that failed, none
\* when there is no agent or the agent raises
Recorded(behaviour) ==
  IF pc = "done"
    THEN Append(enhanced.execution_history, [success |-> TRUE, run |-> run])
  ELSE IF behaviour = "answers"
    THEN Append(enhanced.execution_history, [success |-> FALSE, run |-> run])
  ELSE enhanced.execution_history

\* run_workflow_with_agent_assistance calls run_workflow
AssistedRun ==
  /\ enhanced.calls = run
  /\ RunWorkflow

\* run_workflow has ended: run_workflow_with_agent_assistance records the
\* execution and returns or raises
AssistedEnd ==
  /\ pc \in {"done", "failed"}
  /\ enhanced.calls < run
  /\ \E behaviour \in AgentBehaviours :
       enhanced' = [enhanced EXCEPT
                      !.execution_history = Recorded(behaviour),
                      !.calls = @ + 1,
                      !.succeeded = IF pc = "done" THEN @ + 1 ELSE @]
  /\ UNCHANGED <<runner_vars, call, other, db>>

\* get_success_rate: successful over total, 0.0 as 0 over 1
get_success_rate ==
  IF enhanced.execution_history = <<>>
    THEN <<0, 1>>
    ELSE <<Cardinality({h \in DOMAIN enhanced.execution_history :
                          enhanced.execution_history[h].success}),
           Len(enhanced.execution_history)>>

InitAssisted ==
  /\ workflow \in Workflows
  /\ Constructed
  /\ call = NoDirectCall
  /\ enhanced \in {Enhanced(agent) : agent \in BOOLEAN}
  /\ db = NewDatabase

NextAssisted ==
  \/ AssistedRun
  \/ AssistedEnd
  \/ NodeStep
  \/ NodeLoopExit
  \/ NodeRaises
  \/ NodeReturns
  \/ NodeRetries
  \/ AssemblyStep
  \/ AssemblyMissingSource
  \/ UnknownStep
  \/ AssemblyAccepts
  \/ AssemblyRejects
  \/ AssemblyLoopExit
  \/ Complete

SpecAssisted == InitAssisted /\ [][NextAssisted]_vars

----------------------------------------------------------------------------
(* WorkflowMemory *)

\* an id no stored workflow has, as the dashboard's hash(workflow_name)
UnstoredId == 0 - 7

\* store_workflow: INSERT INTO workflows; the row's id is its position, the
\* counters take their default 0
StoreWorkflow ==
  /\ Len(db.workflows) < MaxStored
  /\ db' = [db EXCEPT !.workflows = Append(@, [success_count |-> 0, failure_count |-> 0])]
  /\ UNCHANGED <<runner_vars, call, other, enhanced>>

\* UPDATE workflows SET ..._count = ..._count + 1 WHERE id = workflow_id
Updated(rows, workflow_id, success) ==
  [id \in DOMAIN rows |->
     IF id # workflow_id THEN rows[id]
     ELSE IF success THEN [rows[id] EXCEPT !.success_count = @ + 1]
     ELSE [rows[id] EXCEPT !.failure_count = @ + 1]]

\* record_execution: INSERT INTO workflow_executions, then the UPDATE
RecordExecution ==
  /\ Len(db.workflow_executions) < MaxExecutions
  /\ \E workflow_id \in (1..MaxStored) \cup {UnstoredId}, success \in BOOLEAN :
       db' = [workflows |-> Updated(db.workflows, workflow_id, success),
              workflow_executions |->
                Append(db.workflow_executions,
                       [workflow_id |-> workflow_id, success |-> success])]
  /\ UNCHANGED <<runner_vars, call, other, enhanced>>

\* SELECT COUNT(*) FROM workflow_executions WHERE success = ...
Executions(success) ==
  Cardinality({n \in DOMAIN db.workflow_executions :
                 db.workflow_executions[n].success = success})

\* get_workflow_stats
get_workflow_stats ==
  [total_workflows |-> Len(db.workflows),
   successful_executions |-> Executions(TRUE),
   failed_executions |-> Executions(FALSE)]

InitMemory ==
  /\ workflow = [steps |-> <<>>]
  /\ Constructed
  /\ call = NoDirectCall
  /\ enhanced = Plain
  /\ db = NewDatabase

NextMemory == StoreWorkflow \/ RecordExecution

SpecMemory == InitMemory /\ [][NextMemory]_vars

----------------------------------------------------------------------------
(* The methods of the runner called directly, on arguments of the caller's *)

\* values a field of an output can have
FieldValues ==
  {JNull, JInt(0), JInt(7), JBool(FALSE), JBool(TRUE), JStr(<<>>), JStr(<<"v">>),
   JList(<<>>), JDict(EmptyDict)}

\* memories: empty, fetch without the field, fetch with the field
CallMemories ==
  {EmptyDict, [fetch |-> JDict(EmptyDict)]}
    \cup {[fetch |-> JDict([value |-> x])] : x \in FieldValues}

\* data with and without {{fetch.value}}
CallData ==
  {JStr(<<"{{fetch.value}}">>),
   JStr(<<"a", "{{fetch.value}}", "b">>),
   JStr(<<"{{fetch.value}}", "{{fetch.value}}">>),
   JStr(<<"a">>),
   JInt(5),
   JDict([url |-> JStr(<<"{{fetch.value}}">>), n |-> JInt(1)]),
   JList(<<JStr(<<"{{fetch.value}}">>)>>)}

\* a call about to be made
Pending(fn, args) == [fn |-> fn, args |-> args, ret |-> JNull, after |-> <<>>, nth |-> 0]

\* the latest call was of fn and has returned
Called(fn) == call.fn = fn /\ call.nth > 0

CallSubstitute ==
  /\ call.fn = "substitute_variables"
  /\ call.nth = 0
  /\ call' = [call EXCEPT !.ret = substitute_variables(call.args[1], call.args[2]),
                          !.after = call.args,
                          !.nth = 1]
  /\ UNCHANGED <<runner_vars, other, enhanced, db>>

\* instructions of every action, in and out of range, with and without extract
CallInstructions ==
  {JDict([action |-> "select_index", from |-> f, index |-> n]) :
     f \in {"items", "absent"}, n \in {0 - 1, 0, 1, MaxArticles}}
    \cup {JDict([action |-> "select_index", from |-> "items", index |-> n, extract |-> "id"]) :
            n \in {0, 1}}
    \cup {JDict([action |-> "select_random", from |-> f]) : f \in {"items", "absent"}}
    \cup {JDict([action |-> "select_random", from |-> "items", extract |-> "id"]),
          JDict([action |-> "extract", from |-> "items"])}

\* one instruction alone, or next to the copy of a field
CallConfigs ==
  {[picked |-> instruction] : instruction \in CallInstructions}
    \cup {[picked |-> instruction, count |-> JStr("count")] : instruction \in CallInstructions}

CallSources ==
  {JDict([items |-> JList(l), count |-> JInt(5)]) : l \in ItemLists}
    \cup {JDict([count |-> JInt(5)]), JDict([items |-> JStr(<<"x">>), count |-> JInt(5)])}

\* process_assembly_step on arguments of the caller's
CallAssembly ==
  /\ call.fn = "process_assembly_step"
  /\ call.nth = 0
  /\ \E choices \in RandomChoices(call.args[1], call.args[2]) :
       call' = [call EXCEPT
                  !.ret = JDict(process_assembly_step(call.args[1], call.args[2], choices)),
                  !.after = ArgumentsAfter(call.args[1], call.args[2]),
                  !.nth = 1]
  /\ UNCHANGED <<runner_vars, other, enhanced, db>>

\* process_assembly_step once more on the same argument objects
CallAssemblyAgain ==
  /\ Called("process_assembly_step")
  /\ call.nth < MaxCalls
  /\ \E choices \in RandomChoices(call.after[1], call.after[2]) :
       call' = [fn |-> "process_assembly_step",
                args |-> call.after,
                ret |-> JDict(process_assembly_step(call.after[1], call.after[2], choices)),
                after |-> ArgumentsAfter(call.after[1], call.after[2]),
                nth |-> call.nth + 1]
  /\ UNCHANGED <<runner_vars, other, enhanced, db>>

\* d2 laid over d1
Merge(d1, d2) == [k \in DOMAIN d1 \cup DOMAIN d2 |-> IF k \in DOMAIN d2 THEN d2[k] ELSE d1[k]]

\* outputs with and without failure marker, with the fields the validator
\* looks at present in several shapes or absent
CallOutputs ==
  {JDict(Merge(Merge(marker, collection), text)) :
     marker \in {EmptyDict, [error |-> JStr(<<"e">>)], [success |-> JBool(FALSE)],
                 [success |-> JBool(TRUE)]},
     collection \in {EmptyDict, [articles |-> JList(<<>>)],
                     [articles |-> JList(<<GoodArticle>>)], [articles |-> JInt(5)]},
     text \in {EmptyDict, [article_text |-> JStr(LongText)],
               [article_text |-> JStr(<<"x">>)],
               [summary |-> JStr(Rep("s", MIN_SUMMARY_CHARS))]}}

\* texts around a threshold: one character short, exact, padded with
\* whitespace to and beyond it, blank, empty, null
TextsAround(minimum) ==
  {JStr(Rep("x", minimum - 1)),
   JStr(Rep("x", minimum)),
   JStr(<<" ">> \o Rep("x", minimum - 1)),
   JStr(Rep("x", minimum - 1) \o <<"\n", "\t">>),
   JStr(<<" ">> \o Rep("x", minimum) \o <<"\n">>),
   JStr(<<" ", " ">>),
   JStr(<<>>),
   JNull}

\* outputs of the two text nodes, with and without failure marker
TextOutputs ==
  {JDict(Merge(marker, text)) :
     marker \in {EmptyDict, [error |-> JStr(<<"e">>)]},
     text \in {EmptyDict}
               \cup {[article_text |-> x] : x \in TextsAround(MIN_ARTICLE_CHARS)}
               \cup {[summary |-> x] : x \in TextsAround(MIN_SUMMARY_CHARS)}}

\* _validate_node_output on arguments of the caller's
CallValidate ==
  /\ call.fn = "_validate_node_output"
  /\ call.nth = 0
  /\ call' = [call EXCEPT !.ret = _validate_node_output(call.args[1], call.args[2]),
                          !.after = call.args,
                          !.nth = 1]
  /\ UNCHANGED <<runner_vars, other, enhanced, db>>

\* values an assembly can put under an output key
ResultValues ==
  FieldValues \cup {JStr(HTTP \o <<"a">>), JStr(HTTPS \o <<"a">>), JStr(<<"/", "b">>)}

\* results with none, one or both of the output keys
CallResults ==
  {EmptyDict}
    \cup {[picked |-> x] : x \in ResultValues}
    \cup {[article_url |-> x] : x \in ResultValues}
    \cup {[picked |-> x, article_url |-> y] : x \in ResultValues, y \in ResultValues}

\* configurations that declare one or both of the output keys
DeclaringConfigs ==
  {[picked |-> JStr("picked")],
   [article_url |-> JStr("article_url")],
   [picked |-> JStr("picked"), article_url |-> JStr("article_url")]}

\* _validate_assembly_output on arguments of the caller's
CallValidateAssembly ==
  /\ call.fn = "_validate_assembly_output"
  /\ call.nth = 0
  /\ call' = [call EXCEPT !.ret = JBool(_validate_assembly_output(call.args[1], call.args[2])),
                          !.after = call.args,
                          !.nth = 1]
  /\ UNCHANGED <<runner_vars, other, enhanced, db>>

\* inputs of the news node with and without a time period and a count
CallInputs ==
  {JDict(Merge(period, count)) :
     period \in {EmptyDict}
                 \cup {[time_period |-> JStr(TimePeriods[n])] : n \in DOMAIN TimePeriods},
     count \in {EmptyDict}
                \cup {[max_news |-> JInt(n)] :
                        n \in {0, 5, DEFAULT_MAX_NEWS, 25, 26, MAX_NEWS_CEILING,
                               MAX_NEWS_CEILING + 10}}}

\* the verdicts the validator can hand the retry strategy for a node
CallVerdicts(node_name) ==
  {verdict \in {_validate_node_output(node_name, output) : output \in CallOutputs} :
     ~verdict.is_valid /\ verdict.raised = NoField}

\* _create_retry_strategy on arguments of the caller's
CallRetryStrategy ==
  /\ call.fn = "_create_retry_strategy"
  /\ call.nth = 0
  /\ call' = [call EXCEPT
                !.ret = JDict(_create_retry_strategy(call.args[1], call.args[2].v,
                                                     call.args[3], call.args[4])),
                !.after = call.args,
                !.nth = 1]
  /\ UNCHANGED <<runner_vars, other, enhanced, db>>

\* instructions a retry can meet: every action, an unknown one, a field copy,
\* indexes below, in and above the collection
RetryInstructions ==
  {JDict([action |-> "select_index", from |-> f, index |-> n]) :
     f \in {"items", "absent"}, n \in {0 - MaxArticles - 1, 0 - 1, 0, 1, MaxArticles}}
    \cup {JDict([action |-> "select_index", from |-> "items"]),
          JDict([action |-> "select_random", from |-> "items"]),
          JDict([action |-> "select_random", from |-> "items", index |-> 0]),
          JDict([action |-> "extract", from |-> "items"]),
          JDict([action |-> "shuffle", from |-> "items", index |-> 0]),
          JStr("count")}

RetryConfigs ==
  {[picked |-> instruction] : instruction \in RetryInstructions}
    \cup {[picked |-> instruction, article_url |-> second] :
            instruction \in RetryInstructions,
            second \in {JDict([action |-> "select_index", from |-> "items", index |-> 0])}}

\* _create_intelligent_assembly_retry on arguments of the caller's; the
\* instruction dicts of the returned configuration are those of the argument
CallAssemblyRetry ==
  /\ call.fn = "_create_intelligent_assembly_retry"
  /\ call.nth = 0
  /\ LET retry_config ==
           _create_intelligent_assembly_retry(call.args[1], call.args[2], call.args[3])
     IN call' = [call EXCEPT !.ret = JDict(retry_config),
                             !.after = <<retry_config, call.args[2], call.args[3]>>,
                             !.nth = 1]
  /\ UNCHANGED <<runner_vars, other, enhanced, db>>

\* the errors validate_workflow appends for the step at position j (from 0)
StepErrors(s, j) ==
  (IF "node" \notin DOMAIN s THEN <<<<"missing 'node' field", j>>>> ELSE <<>>)
    \o (IF "inputs" \in DOMAIN s /\ s.inputs.t # "dict"
          THEN <<<<"'inputs' must be an object", j>>>>
          ELSE <<>>)

RECURSIVE ErrorsFrom(_, _)
ErrorsFrom(steps, j) ==
  IF j > Len(steps) THEN <<>> ELSE StepErrors(steps[j], j - 1) \o ErrorsFrom(steps, j + 1)

\* utils.validation.validate_workflow
validate_workflow(w) ==
  IF "steps" \notin DOMAIN w
    THEN <<<<"Workflow must contain 'steps' array", 0>>>>
    ELSE ErrorsFrom(w.steps, 1)

\* a node step whose inputs are not an object
ScalarInputsStep == [node |-> GNS, inputs |-> JStr(<<"x">>)]

\* the workflows handed to the validator
ValidatedWorkflows ==
  Workflows \cup PickWorkflows
    \cup {TakeWorkflow, [steps |-> <<ScalarInputsStep>>], [steps |-> <<NewsStep, ScalarInputsStep>>]}

\* validate_workflow on a workflow of the caller's
CallValidateWorkflow ==
  /\ call.fn = "validate_workflow"
  /\ call.nth = 0
  /\ call' = [call EXCEPT !.ret = JList(validate_workflow(call.args[1])),
                          !.after = call.args,
                          !.nth = 1]
  /\ UNCHANGED <<runner_vars, other, enhanced, db>>

NextCalls ==
  \/ CallValidateWorkflow
  \/ CallAssemblyRetry
  \/ CallValidate
  \/ CallValidateAssembly
  \/ CallSubstitute
  \/ CallAssembly
  \/ CallAssemblyAgain
  \/ CallRetryStrategy

\* the calls a caller can make
SubstituteCalls ==
  {Pending("substitute_variables", <<data, memory>>) :
     data \in CallData, memory \in CallMemories}

AssemblyCalls ==
  {Pending("process_assembly_step", <<assembly_config, source>>) :
     assembly_config \in CallConfigs, source \in CallSources}

ValidateCalls ==
  {Pending("_validate_node_output", <<node_name, output>>) :
     node_name \in RegisteredNodes, output \in CallOutputs}
    \cup {Pending("_validate_node_output", <<node_name, output>>) :
            node_name \in {APS, AP}, output \in TextOutputs}

ValidateAssemblyCalls ==
  {Pending("_validate_assembly_output", <<result, assembly_config>>) :
     result \in CallResults, assembly_config \in DeclaringConfigs}

RetryStrategyCalls ==
  {Pending("_create_retry_strategy", <<node_name, inputs, verdict, n>>) :
     node_name \in {GNS}, inputs \in CallInputs, verdict \in CallVerdicts(GNS),
     n \in 1..(max_retries - 1)}
    \cup UNION {{Pending("_create_retry_strategy", <<node_name, inputs, verdict, n>>) :
                   inputs \in CallInputs, verdict \in CallVerdicts(node_name),
                   n \in {1}} :
                 node_name \in {APS, AP, FETCH, "unknown-node"}}

AssemblyRetryCalls ==
  {Pending("_create_intelligent_assembly_retry", <<assembly_config, source, n>>) :
     assembly_config \in RetryConfigs, source \in CallSources, n \in 1..(max_retries - 1)}

ValidateWorkflowCalls ==
  {Pending("validate_workflow", <<w>>) : w \in ValidatedWorkflows}

\* a runner one of whose methods is about to be called
InitCalls ==
  /\ workflow = [steps |-> <<>>]
  /\ Constructed
  /\ enhanced = Plain
  /\ db = NewDatabase
  /\ \/ call \in SubstituteCalls
     \/ call \in AssemblyCalls
     \/ call \in ValidateCalls
     \/ call \in ValidateAssemblyCalls
     \/ call \in RetryStrategyCalls
     \/ call \in AssemblyRetryCalls
     \/ call \in ValidateWorkflowCalls

SpecCalls == InitCalls /\ [][NextCalls]_vars

\* the runner given a workflow over the fetch-and-pick steps
InitPick ==
  workflow \in PickWorkflows /\ Constructed /\ call = NoDirectCall /\ enhanced = Plain
    /\ db = NewDatabase

SpecPick == InitPick /\ [][Next]_vars

----------------------------------------------------------------------------
(* Two runners, each with its own instance state, given the same workflow   *)
(* object.  The steps above are those of the runner that is running; the    *)
(* scheduler can switch to the other runner between any two of them.        *)

Switch ==
  /\ other' = [id |-> 3 - other.id, execution_memory |-> execution_memory,
               retry_attempts |-> retry_attempts, results |-> results, pc |-> pc,
               i |-> i, run |-> run, name |-> name, config |-> config,
               retry_key |-> retry_key, attempt |-> attempt, error |-> error,
               made |-> made, last |-> last, invoked |-> invoked, trace |-> trace]
  /\ execution_memory' = other.execution_memory
  /\ retry_attempts' = other.retry_attempts
  /\ results' = other.results
  /\ pc' = other.pc
  /\ i' = other.i
  /\ run' = other.run
  /\ name' = other.name
  /\ config' = other.config
  /\ retry_key' = other.retry_key
  /\ attempt' = other.attempt
  /\ error' = other.error
  /\ made' = other.made
  /\ last' = other.last
  /\ invoked' = other.invoked
  /\ trace' = other.trace
  /\ UNCHANGED <<workflow, original, call, enhanced, db>>

\* both runners are given the workflow feed, then take
InitTwo ==
  workflow = TakeWorkflow /\ Constructed /\ call = NoDirectCall /\ enhanced = Plain
    /\ db = NewDatabase

\* the steps of Next that a workflow of a node step and an assembly step with
\* that node as its source can take, and the switch
NextTwo ==
  \/ RunWorkflow
  \/ NodeStep
  \/ NodeLoopExit
  \/ NodeRaises
  \/ NodeReturns
  \/ NodeRetries
  \/ AssemblyStep
  \/ AssemblyAccepts
  \/ AssemblyRejects
  \/ AssemblyLoopExit
  \/ Complete
  \/ Switch

SpecTwo == InitTwo /\ [][NextTwo]_vars

----------------------------------------------------------------------------
(* Properties *)

InRetryLoop == pc \in {"node_loop", "asm_loop"}

\* a {{X...}} token of the data names an identifier X that memory does not have
RECURSIVE RefersToMissingStep(_, _)
RefersToMissingStep(data, memory) ==
  CASE data.t = "str" ->
         \E j \in 1..Len(data.v) :
           IsRef(data.v[j]) /\ RefParts[data.v[j]][1] \notin DOMAIN memory
    [] data.t = "dict" -> \E k \in DOMAIN data.v : RefersToMissingStep(data.v[k], memory)
    [] data.t = "list" -> \E j \in 1..Len(data.v) : RefersToMissingStep(data.v[j], memory)
    [] OTHER -> FALSE

\* C1: a node step whose inputs refer to {{X.field}} with X not in execution
\* memory fails at resolution: its node is never invoked (and so never sees the
\* literal token).
C1_UnresolvedReferenceFailsStep ==
  (pc = "node_loop" /\ made > 0) =>
    ~RefersToMissingStep(Get(step, "inputs", JDict(EmptyDict)), execution_memory)

\* an output of the news node with an empty or missing collection and no
\* failure marker
EmptyUnmarked(output) ==
  /\ output.t = "dict"
  /\ ~ReportsFailure(output)
  /\ ~Truthy(Get(output.v, "articles", JList(<<>>)))

\* C2: for google-news-scraper an output whose 'articles' is empty or missing
\* is judged invalid with retry_recommended, failure marker or not.
C2_EmptyCollectionRetryRecommended ==
  (name = GNS /\ last.kind = "return"
     /\ ~Truthy(Get(last.output.v, "articles", JList(<<>>)))) =>
    /\ ~_validate_node_output(GNS, last.output).is_valid
    /\ _validate_node_output(GNS, last.output).retry_recommended

\* the time windows, narrowest first
WindowRank(period) ==
  CASE period = JStr(Last24Hours) -> 1
    [] period = JStr(LastWeek) -> 2
    [] period = JStr(LastMonth) -> 3
    [] OTHER -> 0

\* C3: while the news node keeps returning an empty collection without a
\* failure marker, every invocation before the third is followed by another
\* one with a wider time window; only the third ends the step.
C3_EmptyFetchInvokedThreeTimes ==
  [][(/\ pc = "node_loop"
      /\ name = GNS
      /\ attempt = made
      /\ made' = made + 1
      /\ made' < max_retries
      /\ EmptyUnmarked(last'.output))
       => /\ pc' = "node_loop"
          /\ WindowRank(Get(config'.v, "time_period", JStr(Last24Hours)))
               > WindowRank(Get(config.v, "time_period", JStr(Last24Hours)))]_vars

\* C4: one retry call makes at most max_retries attempts, and a call whose
\* latest attempt produced an output (valid or not) does not end the run with
\* an exception.
C4_AttemptsBoundedInvalidReturns ==
  /\ made <= max_retries
  /\ (pc = "failed" /\ made > 0) => last.kind = "raise"

C4_Witness ==
  /\ pc = "step"
  /\ made = max_retries
  /\ name = APS
  /\ last.kind = "return"
  /\ ~_validate_node_output(APS, last.output).is_valid

\* C5: a run fails at a node step only with the attempt count at max_retries;
\* an execution error below that count is followed by another attempt, and a
\* valid output of an attempt is recorded under the node's name and the run
\* moves to the next step.
C5_ExecutionErrorRetriedUntilExhausted ==
  /\ [](pc = "failed" /\ error.cause \in {"execution_error", "attempts_exhausted"}
          => attempt = max_retries)
  /\ [][(pc = "node_loop" /\ made' = made + 1 /\ last'.kind = "raise"
           /\ attempt' < max_retries)
          => pc' = "node_loop" /\ execution_memory' = execution_memory]_vars
  /\ [][(pc = "node_loop" /\ made' = made + 1 /\ last'.kind = "return"
           /\ _validate_node_output(name, last'.output).is_valid)
          => /\ pc' = "step"
             /\ i' = i + 1
             /\ name \in DOMAIN execution_memory'
             /\ execution_memory'[name] = last'.output]_vars

\* two execution errors, then a valid output at the third attempt, recorded
C5_Witness ==
  /\ pc = "step"
  /\ name = GNS
  /\ made = max_retries
  /\ config = retry_key[2]
  /\ last.kind = "return"
  /\ _validate_node_output(GNS, last.output).is_valid
  /\ execution_memory[GNS] = last.output

\* C6: steps are attempted in document order, one after another: the first
\* attempt of a step comes after the memory write of the step before it, and
\* while a step is being attempted every earlier step's identifier is in
\* execution memory.
C6_StepsStrictlySequential ==
  /\ \A k \in 1..Len(trace) :
       trace[k] = <<IF k % 2 = 1 THEN "attempt" ELSE "record", (k + 1) \div 2>>
  /\ (InRetryLoop /\ made > 0) =>
       \A j \in 1..(i - 1) : StepId(workflow.steps[j], j) \in DOMAIN execution_memory

\* the second step is being retried after the first was recorded
C6_Witness ==
  /\ InRetryLoop
  /\ i = 2
  /\ made > 1
  /\ Len(trace) = 3

\* C7: within a run a key of execution memory, once written, stays and keeps
\* its value.
C7_MemoryWriteOnce ==
  [][run' = run =>
       \A k \in DOMAIN execution_memory :
         k \in DOMAIN execution_memory' /\ execution_memory'[k] = execution_memory[k]]_vars

\* C8: after a run the caller's workflow equals the workflow before the run.
C8_WorkflowNotMutated ==
  pc \in {"done", "failed"} => workflow = original

\* C9: when a run starts, execution memory is empty and no retry key has
\* attempts counted against it.
C9_CountersScopedPerRun ==
  (pc = "step" /\ i = 1) =>
    /\ execution_memory = EmptyDict
    /\ \A k \in DOMAIN retry_attempts : retry_attempts[k] = 0

\* the step at position i breaks a structural precondition
StructuralViolation ==
  /\ pc = "step"
  /\ i <= Len(workflow.steps)
  /\ \/ ~IsNodeStep(step) /\ ~IsAssemblyStep(step)
     \/ IsAssemblyStep(step) /\ ~HasValidSource(step, execution_memory)

\* C10: a step of unknown kind, or an assembly step whose source is missing
\* or not in memory, fails the run at once: no attempt, no retry count, no
\* memory write for it, and nothing runs after it in that run.
C10_StructuralErrorFatalUnretried ==
  /\ [][StructuralViolation =>
          /\ pc' = "failed"
          /\ error'.step = i
          /\ made' = 0
          /\ execution_memory' = execution_memory
          /\ retry_attempts' = retry_attempts
          /\ trace' = trace]_vars
  /\ [][(pc = "failed" /\ run' = run) => UNCHANGED vars]_vars
  /\ []((pc = "failed" /\ error.cause \in {"unknown_step_kind", "missing_source"})
          => \A k \in 1..Len(trace) : trace[k][2] < error.step)

C10_Witness ==
  /\ pc = "failed"
  /\ error.cause = "missing_source"
  /\ error.step = 2
  /\ Len(trace) = 2

\* the step at position j had an output recorded that its validator rejects
\* although a retry was called for: its retries ran out
RecordedInvalid(j) ==
  LET s == workflow.steps[j]
      id == StepId(s, j)
  IN /\ id \in DOMAIN execution_memory
     /\ IF IsNodeStep(s)
          THEN /\ ~_validate_node_output(id, execution_memory[id]).is_valid
               /\ _validate_node_output(id, execution_memory[id]).retry_recommended
          ELSE /\ IsAssemblyStep(s)
               /\ ~_validate_assembly_output(execution_memory[id].v, s.assembly)

Degraded == \E j \in 1..Len(workflow.steps) : RecordedInvalid(j)

\* C11: the result of a completed run in which some step ran out of retries and
\* had its last invalid output recorded is told apart from the result of a
\* clean run (status success, nothing but results and execution_memory beside
\* it) by its status or by a further marker.
C11_DegradedSuccessDistinguished ==
  (pc = "done" /\ Degraded) =>
    \/ RunResult.status # "success"
    \/ DOMAIN RunResult # {"status", "results", "execution_memory"}

\* C12: the exception of a failed run names the number of the step that caused
\* it and, where the step has one, its identifier, whatever the cause.
C12_FailureCarriesIndexAndIdentifier ==
  (pc = "failed" /\ error.cause \in {"unknown_step_kind", "missing_source",
                                     "execution_error", "attempts_exhausted"}) =>
    LET id == StepId(workflow.steps[error.step], error.step)
    IN /\ "step_number" \in DOMAIN ErrorMessage
       /\ ErrorMessage.step_number = error.step
       /\ id # NoField =>
            \E f \in {"node_name", "assembly_name"} \cap DOMAIN ErrorMessage :
              ErrorMessage[f] = id

\* C13: a completed run returns status success with results and
\* execution_memory the same mapping, which has an entry for every step
\* identifier of the workflow; an entry is written when a retry call returns
\* and holds the output that call accepted, and nothing else writes results.
C13_CompletedRunReturnsOutputs ==
  /\ [](pc = "done" =>
          /\ RunOutcome.kind = "return"
          /\ RunOutcome.value.status = "success"
          /\ RunOutcome.value.results = RunOutcome.value.execution_memory
          /\ \A j \in 1..Len(workflow.steps) :
               StepId(workflow.steps[j], j) \in DOMAIN RunOutcome.value.results
          /\ Len(workflow.steps) > 0 => RunOutcome.value.results[name] = last.output)
  /\ [][(InRetryLoop /\ pc' = "step") =>
          /\ last'.kind = "return"
          /\ results' = SetKey(results, name, last'.output)]_vars
  /\ [][(run' = run /\ ~(InRetryLoop /\ pc' = "step")) => results' = results]_vars

\* a completed two-step run whose assembly step was accepted at its second
\* attempt
C13_Witness ==
  /\ pc = "done"
  /\ Len(workflow.steps) = 2
  /\ name = "article_selector"
  /\ made = 2
  /\ DOMAIN results = {GNS, "article_selector"}
  /\ results[name] = JDict([article_url |-> GoodArticle.v.url])

\* C14: every run that has ended hands its caller a result with status success
\* or failed, a failed run one with status failed and an error; so does the
\* agent-assisted variant, whatever its agent does.
C14_EveryRunEndsWithStatus ==
  pc \in {"done", "failed"} =>
    \A agent \in Agents :
      \A outcome \in {RunOutcome, run_workflow_with_agent_assistance(agent)} :
        /\ outcome.kind = "return"
        /\ outcome.value.status \in {"success", "failed"}
        /\ pc = "failed" =>
             outcome.value.status = "failed" /\ "error" \in DOMAIN outcome.value

\* the source of the assembly step being executed has a non-empty 'items'
FetchedItems ==
  /\ "items" \in DOMAIN source_data.v
  /\ source_data.v["items"].t = "list"
  /\ Len(source_data.v["items"].v) > 0

\* the first invocation of fetch returns, and that ends the step with the
\* output in memory
FetchInvokedOnce ==
  /\ pc' = "step"
  /\ made' = 1
  /\ execution_memory'[FETCH] = last'.output

\* the first attempt of pick ends the step with the first item in memory, the
\* workflow as it was and no step left
PickedFirst ==
  /\ pc' = "step"
  /\ made' = 1
  /\ execution_memory'["pick"] = JDict([picked |-> source_data.v["items"].v[1]])
  /\ workflow' = workflow
  /\ i' = Len(workflow.steps) + 1

\* C15: in the workflow fetch, then pick = select_index 0 from 'items' with
\* source fetch, when fetch returns an output without failure marker whose
\* 'items' is non-empty and starts with a non-empty (truthy) item, fetch is
\* invoked once, pick = {picked: first item} goes to memory, the instruction
\* keeps index 0 and the run has no step left.
C15_PickFirstTruthyItem ==
  /\ [][(/\ pc = "node_loop" /\ name = FETCH /\ made = 0 /\ made' = 1
          /\ last'.kind = "return"
          /\ ~ReportsFailure(last'.output)) => FetchInvokedOnce]_vars
  /\ [][(/\ pc = "asm_loop" /\ workflow = PickWorkflow /\ made = 0 /\ made' = 1
          /\ FetchedItems
          /\ Truthy(source_data.v["items"].v[1])) => PickedFirst]_vars

\* the scenario of the specification: fetch returned the items x and y
C15_Witness ==
  /\ pc = "done"
  /\ workflow = PickWorkflow
  /\ execution_memory[FETCH] = JDict([items |-> JList(<<ItemX, ItemY>>)])
  /\ execution_memory["pick"] = JDict([picked |-> ItemX])
  /\ made = 1

\* C15 as stated: the same whatever the first item of a non-empty 'items' is
C15_PickFirstItem ==
  /\ [][(/\ pc = "node_loop" /\ name = FETCH /\ made = 0 /\ made' = 1
          /\ last'.kind = "return"
          /\ ~ReportsFailure(last'.output)) => FetchInvokedOnce]_vars
  /\ [][(/\ pc = "asm_loop" /\ workflow = PickWorkflow /\ made = 0 /\ made' = 1
          /\ FetchedItems) => PickedFirst]_vars

\* the reference names a key of memory and a key of the value stored there
Resolvable(lexeme, memory) ==
  LET parts == RefParts[lexeme]
  IN /\ Len(parts) = 2
     /\ parts[1] \in DOMAIN memory
     /\ memory[parts[1]].t = "dict"
     /\ parts[2] \in DOMAIN memory[parts[1]].v

\* the string with every resolvable reference replaced by the stringified value
RECURSIVE Replaced(_, _)
Replaced(s, memory) ==
  IF s = <<>> THEN <<>>
  ELSE (IF IsRef(Head(s)) /\ Resolvable(Head(s), memory)
          THEN PyStr(memory[RefParts[Head(s)][1]].v[RefParts[Head(s)][2]])
          ELSE <<Head(s)>>) \o Replaced(Tail(s), memory)

\* C16: substitute_variables on a string replaces every reference {{A.field}}
\* with A in memory and field in memory[A] by the stringified memory[A][field],
\* whatever the value; a reference that is not resolvable does not survive in
\* the string returned.
C16_ReferenceResolvedOrFails ==
  (Called("substitute_variables") /\ call.args[1].t = "str") =>
    LET s == call.args[1].v
        memory == call.args[2]
    IN /\ (\A j \in 1..Len(s) : IsRef(s[j]) => Resolvable(s[j], memory))
            => call.ret = JStr(Replaced(s, memory))
       /\ \A j \in 1..Len(s) :
            (IsRef(s[j]) /\ ~Resolvable(s[j], memory)) =>
              \A k \in 1..Len(call.ret.v) : call.ret.v[k] # s[j]

\* a configuration with select_index at index 0 and nothing random
SelectsIndexZero(assembly_config) ==
  /\ \E k \in DOMAIN assembly_config :
       /\ assembly_config[k].t = "dict"
       /\ InstrAction(assembly_config[k]) = "select_index"
       /\ InstrIndex(assembly_config[k]) = 0
  /\ \A k \in DOMAIN assembly_config :
       assembly_config[k].t = "dict" => InstrAction(assembly_config[k]) = "select_index"

AsSelectIndexZero(instruction) ==
  JDict(SetKey(SetKey(instruction.v, "action", "select_index"), "index", 0))

\* C18: on a source sequence of length 1 a select_random instruction yields
\* what select_index at index 0 with the same from and extract yields, at every
\* call.
C18_RandomOverOneIsIndexZero ==
  Called("process_assembly_step") =>
    \A k \in DOMAIN call.args[1] :
      LET instruction == call.args[1][k]
          source == call.args[2]
      IN (/\ instruction.t = "dict"
          /\ InstrAction(instruction) = "select_random"
          /\ InstrFrom(instruction) \in DOMAIN source.v
          /\ source.v[InstrFrom(instruction)].t = "list"
          /\ Len(source.v[InstrFrom(instruction)].v) = 1) =>
           /\ (k \in DOMAIN call.ret.v) <=> Produces(AsSelectIndexZero(instruction), source)
           /\ k \in DOMAIN call.ret.v =>
                call.ret.v[k] = Produced(AsSelectIndexZero(instruction), source, 1)

C18_Witness ==
  /\ Called("process_assembly_step")
  /\ call.nth > 1
  /\ call.args[1] =
       [picked |-> JDict([action |-> "select_random", from |-> "items", extract |-> "id"])]
  /\ "items" \in DOMAIN call.args[2].v
  /\ call.args[2].v["items"] = JList(<<ItemX>>)
  /\ call.ret = JDict([picked |-> JStr(<<"x">>)])

\* the instruction names a from field the source lacks, selects from an empty
\* sequence, or selects an index outside the sequence
Unanswerable(instruction, source) ==
  /\ instruction.t = "dict"
  /\ \/ InstrFrom(instruction) \notin DOMAIN source.v
     \/ /\ InstrAction(instruction) \in {"select_index", "select_random"}
        /\ source.v[InstrFrom(instruction)] = JList(<<>>)
     \/ /\ InstrAction(instruction) = "select_index"
        /\ source.v[InstrFrom(instruction)].t = "list"
        /\ \/ InstrIndex(instruction) < 0
           \/ InstrIndex(instruction) >= Len(source.v[InstrFrom(instruction)].v)

\* C19: process_assembly_step returns a result in which the output field of an
\* instruction with a missing from field, an empty sequence or an index out of
\* range is absent, and the fields the other instructions copy are there.
C19_UnanswerableFieldOmitted ==
  Called("process_assembly_step") =>
    /\ call.ret.t = "dict"
    /\ \A k \in DOMAIN call.args[1] :
         Unanswerable(call.args[1][k], call.args[2]) =>
           /\ k \notin DOMAIN call.ret.v
           /\ \A copy \in DOMAIN call.args[1] \ {k} :
                (call.args[1][copy].t = "str"
                   /\ call.args[1][copy].v \in DOMAIN call.args[2].v) =>
                  /\ copy \in DOMAIN call.ret.v
                  /\ call.ret.v[copy] = call.args[2].v[call.args[1][copy].v]

\* a negative index next to the copy of a field
C19_Witness ==
  /\ Called("process_assembly_step")
  /\ DOMAIN call.args[1] = {"picked", "count"}
  /\ InstrIndex(call.args[1]["picked"]) < 0
  /\ "items" \in DOMAIN call.args[2].v
  /\ call.args[2].v["items"] = JList(<<ItemX>>)
  /\ call.ret = JDict([count |-> JInt(5)])

\* C20: whatever the node name and the other fields, _validate_node_output
\* judges an output with an 'error' field or success = false invalid and
\* recommends a retry.
C20_FailureMarkerInvalidRetry ==
  (Called("_validate_node_output") /\ ReportsFailure(call.args[2])) =>
    /\ call.ret.raised = NoField
    /\ ~call.ret.is_valid
    /\ call.ret.retry_recommended

\* null, the empty string, the empty list, the empty dict
IsEmpty(x) == x \in {JNull, JStr(<<>>), JList(<<>>), JDict(EmptyDict)}

\* C21: _validate_assembly_output accepts a result exactly when every output
\* key of the configuration is in the result with a value that is not empty,
\* and every such key with 'url' in its name holds a string that begins with
\* http:// or https://.
C21_AssemblyAcceptedIffPresentNonEmpty ==
  Called("_validate_assembly_output") =>
    (call.ret = JBool(TRUE)) <=>
      \A k \in DOMAIN call.args[2] :
        /\ k \in DOMAIN call.args[1]
        /\ ~IsEmpty(call.args[1][k])
        /\ k \in UrlNamedKeys =>
             /\ call.args[1][k].t = "str"
             /\ \/ StartsWith(call.args[1][k].v, HTTP)
                \/ StartsWith(call.args[1][k].v, HTTPS)

\* C22: a step of the runner that is running leaves the instance state of the
\* other runner (its execution memory and attempt counters among it) as it is
\* and, while the other runner is in the middle of a run, also the workflow
\* that run is executing.
C22_InstancesShareNoState ==
  [][other'.id = other.id =>
       /\ other' = other
       /\ other.pc \in {"step", "node_loop", "asm_loop"} => workflow' = workflow]_vars

\* the exit status of a command-line entry point whose call of the runner ended
\* with outcome: an exception is caught, printed and answered with sys.exit(1);
\* a returned result is printed and the process ends normally
ExitStatus(outcome) == IF outcome.kind = "raise" THEN 1 ELSE 0

\* glue_runner.main on the run that has ended
main == ExitStatus(RunOutcome)

\* enhanced_glue_runner.main on the run that has ended, with the agent it built
enhanced_main(agent) == ExitStatus(run_workflow_with_agent_assistance(agent))

Succeeded(outcome) == outcome.kind = "return" /\ outcome.value.status = "success"

\* C23: both command-line entry points exit with status 0 exactly when the run
\* succeeded (status success) and with a non-zero status for every other
\* outcome, a failed or failed_with_analysis result of the agent-assisted
\* runner included.
C23_ExitZeroIffSuccess ==
  pc \in {"done", "failed"} =>
    /\ main = 0 <=> Succeeded(RunOutcome)
    /\ \A agent \in Agents :
         enhanced_main(agent) = 0 <=> Succeeded(run_workflow_with_agent_assistance(agent))

\* the attempt just made returned an output and the step is attempted again
NodeReattempted ==
  pc = "node_loop" /\ pc' = "node_loop" /\ made' = made + 1 /\ last'.kind = "return"

AssemblyReattempted ==
  pc = "asm_loop" /\ pc' = "asm_loop" /\ made' = made + 1 /\ last'.kind = "return"

\* the attempt just made returned an invalid output for which no retry is
\* recommended
NotWorthRetrying(node_name, outcome) ==
  /\ outcome.kind = "return"
  /\ ~_validate_node_output(node_name, outcome.output).is_valid
  /\ ~_validate_node_output(node_name, outcome.output).retry_recommended

\* C24: a step is attempted again after an invalid output only when a retry is
\* recommended (for an assembly step: whenever its result is invalid) and
\* fewer than max_retries attempts have been made; a node attempt whose output
\* is invalid with retry_recommended false is the last of its step, and its
\* output is recorded.
C24_RetryOnlyWhenRecommended ==
  [][/\ NodeReattempted =>
          /\ ~_validate_node_output(name, last'.output).is_valid
          /\ _validate_node_output(name, last'.output).retry_recommended
          /\ attempt' < max_retries
     /\ AssemblyReattempted =>
          /\ ~_validate_assembly_output(last'.output.v, config.v)
          /\ attempt' < max_retries
     /\ (pc = "node_loop" /\ made' = made + 1 /\ NotWorthRetrying(name, last')) =>
          /\ pc' = "step"
          /\ i' = i + 1
          /\ results'[name] = last'.output
          /\ execution_memory'[name] = last'.output]_vars

\* a node step ended after one attempt whose output was invalid with no retry
\* recommended, and that output is recorded
C24_Witness ==
  /\ pc = "step"
  /\ made = 1
  /\ name \in RegisteredNodes
  /\ NotWorthRetrying(name, last)
  /\ attempt = 0
  /\ Get(results, name, JNull) = last.output

\* the place of a time period in the order of the periods, narrowest first
PeriodRank(period) == CHOOSE n \in DOMAIN TimePeriods : JStr(TimePeriods[n]) = period

\* the time period and the count the news node is asked for with inputs
RequestedPeriod(inputs) == Get(inputs.v, "time_period", JStr(Last24Hours))
RequestedCount(inputs) == Get(inputs.v, "max_news", JInt(DEFAULT_MAX_NEWS)).v

\* the retry strategy changed the inputs of the news node
Mutated ==
  /\ Called("_create_retry_strategy")
  /\ call.args[1] = GNS
  /\ call.args[3].alternative_strategy = "try_different_keywords_or_time_period"

\* C25: each retry mutation of the news node's inputs moves the time period
\* exactly one step along the order of the periods (unchanged only at the
\* broadest) and yields a requested count that is not smaller than before and
\* is at most 50, whatever the starting period and count.
C25_WindowOneStepCountCapped ==
  Mutated =>
    /\ PeriodRank(RequestedPeriod(call.ret))
         = Min(PeriodRank(RequestedPeriod(call.args[2])) + 1, Len(TimePeriods))
    /\ RequestedCount(call.ret) >= RequestedCount(call.args[2])
    /\ RequestedCount(call.ret) <= MAX_NEWS_CEILING

\* the select_index instructions of the configuration a retry was called on
RetriedSelections ==
  {k \in DOMAIN call.args[1] :
     call.args[1][k].t = "dict" /\ InstrAction(call.args[1][k]) = "select_index"}

\* the length of the collection the instruction under k selects from, -1 when
\* there is no such list
CollectionLength(k) ==
  LET source_field == InstrFrom(call.args[1][k])
  IN IF source_field \in DOMAIN call.args[2].v /\ call.args[2].v[source_field].t = "list"
       THEN Len(call.args[2].v[source_field].v)
       ELSE 0 - 1

IndexBefore(k) == InstrIndex(call.args[1][k])
IndexAfter(k) == InstrIndex(call.ret.v[k])

\* the retry wrote the index of the instruction under k
IndexSet(k) == call.ret.v[k] # call.args[1][k]

\* the index for the next attempt is the index plus the attempt number, applied
\* only if that is less than the length of the collection
IncrementBounded(k) ==
  /\ IndexSet(k) <=>
       (CollectionLength(k) >= 0 /\ IndexBefore(k) + call.args[3] < CollectionLength(k))
  /\ IndexSet(k) => IndexAfter(k) = IndexBefore(k) + call.args[3]
  /\ call.ret.v[k] = [call.args[1][k] EXCEPT !.v = SetKey(@, "index", IndexAfter(k))]
       \/ ~IndexSet(k)

\* C26 as stated: the index of a retried select_index instruction is its index
\* plus the attempt number, applied only if less than the length of the source
\* collection, and so is never set to a value outside the collection.
C26_RetryIndexInsideCollection ==
  Called("_create_intelligent_assembly_retry") =>
    \A k \in RetriedSelections :
      /\ IncrementBounded(k)
      /\ IndexSet(k) => (0 <= IndexAfter(k) /\ IndexAfter(k) < CollectionLength(k))

\* C26, amended: the index of a retried select_index instruction is its index
\* plus the attempt number, applied only if less than the length of the source
\* collection; it is never set to a value at or above the length, and never
\* outside the collection when the index it had was not negative.
C26_RetryIndexBelowLength ==
  Called("_create_intelligent_assembly_retry") =>
    \A k \in RetriedSelections :
      /\ IncrementBounded(k)
      /\ IndexSet(k) =>
           /\ IndexAfter(k) < CollectionLength(k)
           /\ IndexBefore(k) >= 0 => 0 <= IndexAfter(k)

\* a retry moved an index forward inside the collection
C26_Witness ==
  /\ Called("_create_intelligent_assembly_retry")
  /\ \E k \in RetriedSelections :
       /\ IndexSet(k)
       /\ IndexBefore(k) >= 0
       /\ IndexAfter(k) = IndexBefore(k) + call.args[3]
       /\ IndexAfter(k) < CollectionLength(k)

\* the instructions of a retried configuration that are not select_index ones
OtherInstructions == DOMAIN call.args[1] \ RetriedSelections

\* C27: the retry strategy returns the inputs it was given for the content
\* nodes and for unknown nodes, and leaves every instruction that is not a
\* select_index one (select_random, an unknown action, a field copy) as it
\* was: the next attempt is made with the configuration of the first.
C27_RetryLeavesOthersUnchanged ==
  /\ (Called("_create_retry_strategy") /\ call.args[1] # GNS) =>
       (call.ret = call.args[2] /\ call.after = call.args)
  /\ Called("_create_intelligent_assembly_retry") =>
       \A k \in OtherInstructions :
         call.ret.v[k] = call.args[1][k] /\ call.after[1][k] = call.args[1][k]

\* the retry strategy was called for the page node after too short a text
C27_Witness ==
  /\ Called("_create_retry_strategy")
  /\ call.args[1] = APS
  /\ call.args[3].alternative_strategy = "try_different_article_url"
  /\ call.args[3].retry_recommended
  /\ "max_news" \in DOMAIN call.args[2].v
  /\ call.ret = call.args[2]

\* the text field of the free-text node and its threshold
TextField(node_name) == IF node_name = APS THEN "article_text" ELSE "summary"
Threshold(node_name) == IF node_name = APS THEN MIN_ARTICLE_CHARS ELSE MIN_SUMMARY_CHARS

\* the text of the validated output is missing, empty, or shorter than the
\* threshold once trimmed
TextLacking ==
  LET field == TextField(call.args[1])
  IN \/ field \notin DOMAIN call.args[2].v
     \/ call.args[2].v[field] = JNull
     \/ /\ call.args[2].v[field].t = "str"
        /\ Len(Strip(call.args[2].v[field].v)) < Threshold(call.args[1])

\* the trimmed text of the validated output reaches the threshold
TextSufficient ==
  LET field == TextField(call.args[1])
  IN /\ field \in DOMAIN call.args[2].v
     /\ call.args[2].v[field].t = "str"
     /\ Len(Strip(call.args[2].v[field].v)) >= Threshold(call.args[1])

\* C28: for article-page-scraper (article_text, 100) and article-processor
\* (summary, 50) the validator judges an output invalid and retry-recommended
\* when the text is missing, empty or shorter than the threshold after
\* trimming, and not invalid on account of the text when the trimmed text
\* reaches the threshold.
C28_FreeTextThresholds ==
  (Called("_validate_node_output") /\ call.args[1] \in {APS, AP}) =>
    /\ TextLacking => (~call.ret.is_valid /\ call.ret.retry_recommended)
    /\ TextSufficient =>
         /\ call.ret.is_valid <=> ~ReportsFailure(call.args[2])
         /\ Len(call.ret.issues) = IF ReportsFailure(call.args[2]) THEN 1 ELSE 0

\* a text of threshold length that is too short once trimmed was rejected
C28_Witness ==
  /\ Called("_validate_node_output")
  /\ call.args[1] \in {APS, AP}
  /\ TextLacking
  /\ TextField(call.args[1]) \in DOMAIN call.args[2].v
  /\ call.args[2].v[TextField(call.args[1])].t = "str"
  /\ Len(call.args[2].v[TextField(call.args[1])].v) >= Threshold(call.args[1])
  /\ ~call.ret.is_valid
  /\ call.ret.retry_recommended

\* C29: while a step is attempted and retried execution memory stays as it was
\* when the step started; the step's entry is written only when its retry
\* loop ends, and it is the output of the attempt made last, also when the
\* loop ends by exhaustion.
C29_MemoryWrittenAfterLoop ==
  [][/\ (InRetryLoop /\ pc' # "step") =>
          (execution_memory' = execution_memory /\ results' = results)
     /\ (InRetryLoop /\ pc' = "step") =>
          /\ made' = made + 1
          /\ last'.kind = "return"
          /\ execution_memory' = SetKey(execution_memory, name, last'.output)
          /\ results' = SetKey(results, name, last'.output)
     /\ ~InRetryLoop =>
          \/ execution_memory' = execution_memory
          \/ pc \in {"idle", "done", "failed"} /\ execution_memory' = EmptyDict]_vars

\* a node step ended by exhaustion after an earlier attempt had returned, and
\* the output of its last attempt, an invalid one, is in memory
C29_Witness ==
  /\ pc = "step"
  /\ made = max_retries
  /\ name \in RegisteredNodes
  /\ last.kind = "return"
  /\ ~_validate_node_output(name, last.output).is_valid
  /\ name \in DOMAIN execution_memory
  /\ execution_memory[name] = last.output

KnownActions == {"extract", "select_index", "select_random"}

\* the step has an assembly instruction with an action that is not a known one
HasUnknownAction(s) ==
  /\ IsAssemblyStep(s)
  /\ \E k \in DOMAIN s.assembly :
       s.assembly[k].t = "dict" /\ InstrAction(s.assembly[k]) \notin KnownActions

\* C30: an assembly instruction whose action is none of extract, select_index,
\* select_random fails the run: no run completes over a workflow that has
\* one, and none goes past such a step and records an output for it.
C30_UnknownActionFailsRun ==
  /\ pc = "done" => \A j \in 1..Len(workflow.steps) : ~HasUnknownAction(workflow.steps[j])
  /\ \A j \in 1..(i - 1) :
       (pc \in {"step", "node_loop", "asm_loop"} /\ j <= Len(workflow.steps)) =>
         ~HasUnknownAction(workflow.steps[j])

Running == pc \in {"step", "node_loop", "asm_loop"}

\* C31: every run terminates: a call of run_workflow eventually returns or
\* fails, each iteration of a retry loop either ending the loop or counting
\* one more attempt, never beyond max_retries.
C31_EveryRunTerminates ==
  /\ Running ~> pc \in {"done", "failed"}
  /\ [][(InRetryLoop /\ pc' = pc) =>
          (attempt' = attempt + 1 /\ attempt' <= max_retries)]_vars

\* a run has ended after a step of it used every attempt
C31_Witness ==
  /\ pc \in {"done", "failed"}
  /\ run > 0
  /\ attempt = max_retries
  /\ made = max_retries

\* C32: within one run every step starts its retry loop with a full budget:
\* in the first run of a runner the attempt count a step starts from is 0,
\* whatever the earlier steps of the run spent, also on the same retry key.
C32_FullBudgetPerStep ==
  (run = 1 /\ InRetryLoop /\ made = 0) => attempt = 0

\* the select_index instructions of the assembly step being attempted
Selections ==
  {k \in DOMAIN config.v :
     /\ config.v[k].t = "dict"
     /\ InstrAction(config.v[k]) = "select_index"
     /\ InstrFrom(config.v[k]) \in DOMAIN source_data.v
     /\ source_data.v[InstrFrom(config.v[k])].t = "list"}

\* C33: while the selections of a select_index step keep failing validation,
\* each further attempt tries the element after the one tried before, as long
\* as there is one: none is skipped, and none is tried again while a later
\* one is left.
C33_ConsecutiveElementsTried ==
  [][(pc = "asm_loop" /\ pc' = "asm_loop" /\ made' = made + 1) =>
       \A k \in Selections :
         InstrIndex(config'.v[k]) =
           IF InstrIndex(config.v[k]) + 1 < Len(source_data.v[InstrFrom(config.v[k])].v)
             THEN InstrIndex(config.v[k]) + 1
             ELSE InstrIndex(config.v[k])]_vars

\* C34: a node step on a node without a run script fails the run at its
\* first attempt: the attempt that finds no script is the only one of the step.
C34_UnregisteredNodeNotRetried ==
  [][(pc = "node_loop" /\ name \notin RegisteredNodes /\ made' = made + 1) =>
       (made' = 1 /\ pc' = "failed" /\ error'.step = i)]_vars

\* a node step, or an assembly step, with the fields run_workflow reads
WellFormedStep(s) ==
  \/ IsNodeStep(s) /\ ("inputs" \in DOMAIN s => s.inputs.t = "dict")
  \/ IsAssemblyStep(s) /\ "source" \in DOMAIN s

\* C35: validate_workflow returns no errors for a workflow whose steps are each
\* a well-formed node step or a well-formed assembly step, and returns an
\* error for a workflow with a step that run_workflow rejects as of unknown
\* kind.
C35_ValidatorAgreesOnStepKinds ==
  (Called("validate_workflow") /\ "steps" \in DOMAIN call.args[1]) =>
    LET steps == call.args[1].steps
    IN /\ (\A j \in 1..Len(steps) : WellFormedStep(steps[j])) => call.ret = JList(<<>>)
       /\ (\E j \in 1..Len(steps) : ~IsNodeStep(steps[j]) /\ ~IsAssemblyStep(steps[j]))
            => call.ret # JList(<<>>)

\* C36: between calls of run_workflow_with_agent_assistance the execution
\* history holds one record per call made, and get_success_rate is the number
\* of calls whose run succeeded over the number of calls, 0.0 when there were
\* none.
C36_HistoryRecordsEveryCall ==
  enhanced.calls = run =>
    /\ Len(enhanced.execution_history) = enhanced.calls
    /\ get_success_rate[1] * (IF enhanced.calls = 0 THEN 1 ELSE enhanced.calls)
         = enhanced.succeeded * get_success_rate[2]

RECURSIVE SumOver(_, _, _)
SumOver(rows, field, n) ==
  IF n = 0 THEN 0 ELSE rows[n][field] + SumOver(rows, field, n - 1)

\* C37: after any sequence of store_workflow and record_execution calls the
\* sum of success_count over the stored workflows is the number of successful
\* executions get_workflow_stats reports, and the sum of failure_count the
\* number of failed ones.
C37_CountersAgreeWithLog ==
  /\ SumOver(db.workflows, "success_count", Len(db.workflows))
       = get_workflow_stats.successful_executions
  /\ SumOver(db.workflows, "failure_count", Len(db.workflows))
       = get_workflow_stats.failed_executions

====
